---- MODULE Spec2Model ----
(***************************************************************************)
(* argcall: the derive macros Callable / CallableMut / CallableOnce        *)
(* (crates/argcall_derive) and the trait family they target                *)
(* (crates/argcall).                                                       *)
(*                                                                         *)
(* A declaration is modelled as a syntax tree: attributes are lists of     *)
(* key = value items, token streams are sequences of token strings.  The   *)
(* expansion of a derive is followed by the compilation of the expanded    *)
(* code and by calls of the generated dispatcher.                          *)
(***************************************************************************)
EXTENDS Integers, Sequences, FiniteSets, TLC

VARIABLES
    input,          \* the DeriveInput handed to the derive macro
    phase,          \* "pending" | "expanded" | "panicked" | "compiled" | "rejected"
    callable_type,  \* CallableType of the entry point that ran
    expanded,       \* what generic_callable returned (or the panic it raised)
    called,         \* the last call of the generated dispatcher
    alive,          \* receivers of the trait family that still exist
    last            \* the last call made through the trait family

vars == <<input, phase, callable_type, expanded, called, alive, last>>

-----------------------------------------------------------------------------
(* Bounds of the model *)

MaxAttrs == 2       \* attributes on one declaration or one variant
MaxItems == 2       \* key = value items on one declaration or one variant
MaxVariants == 2    \* variants of one enum
MaxArgs == 2        \* length of an argument bundle

-----------------------------------------------------------------------------
(* Syntax *)

SeqsUpTo(S, n) == UNION {[1..k -> S] : k \in 0..n}

Item(k, v) == [key |-> k, val |-> v]

Attr(p, its) == [path |-> p, items |-> its]

DocAttr == Attr("doc", <<>>)

\* the attribute lists of one declaration or variant: at most a attributes
\* holding at most m items in all; an optional doc attribute comes first
RECURSIVE ArgcallLists(_, _, _)
ArgcallLists(vocab, a, m) ==
    {<<>>} \cup
    (IF a = 0 THEN {}
     ELSE UNION {{<<Attr("argcall", its)>> \o rest :
                    its \in [1..k -> vocab],
                    rest \in ArgcallLists(vocab, a - 1, m - k)} :
                 k \in 0..m})

AttrLists(vocab) ==
    ArgcallLists(vocab, MaxAttrs, MaxItems)
    \cup {<<DocAttr>> \o l : l \in ArgcallLists(vocab, MaxAttrs - 1, MaxItems)}

EnumItems == {Item("output", "T1"), Item("output", "T2"), Item("bogus", "T1")}

\* e1, e2 stand for user expressions; the value of fn_path is an identifier
VariantItems == {Item("fn", "e1"), Item("fn_path", "f"), Item("bogus", "e1")}

FieldLists == {<<"x">>, <<"x", "y">>, <<"y", "x">>}

VariantNames == <<"A", "B", "C", "D">>

Variant(sh, fs, as) == [shape |-> sh, fields |-> fs, attrs |-> as]

BoundUnit == Variant("unit", <<>>, <<Attr("argcall", <<Item("fn", "e2")>>)>>)

BareUnit == Variant("unit", <<>>, <<>>)

Wrapper == Variant("unnamed", <<>>, <<>>)

Named(l) == [i \in 1..Len(l) |-> [name |-> VariantNames[i]] @@ l[i]]

Decl(k, as, vs) == [kind |-> k, ident |-> "E", attrs |-> as, variants |-> vs]

OutputT1 == <<Attr("argcall", <<Item("output", "T1")>>)>>

\* the declarations the derives are run on:
\*  - an enum under any attribute list, its variants plain;
\*  - an enum with output = T1 and one variant of any shape under any attribute
\*    list, at any position among plain siblings;
\*  - a struct
IsInput(d) ==
    \/ \E as \in AttrLists(EnumItems), n \in 1..MaxVariants :
         \E vs \in [1..n -> {BoundUnit, BareUnit, Wrapper}] :
            d = Decl("enum", as, Named(vs))
    \/ \E n \in 1..MaxVariants :
         \E p \in 1..n, others \in [1..n -> {BoundUnit, BareUnit, Wrapper}],
            as \in AttrLists(VariantItems),
            sh \in {<<"unit", <<>>>>, <<"unnamed", <<>>>>} \cup
                   {<<"named", fs>> : fs \in FieldLists} :
            d = Decl("enum", OutputT1,
                     Named([i \in 1..n |-> IF i = p THEN Variant(sh[1], sh[2], as)
                                           ELSE others[i]]))
    \/ \E as \in {OutputT1, <<>>} : d = Decl("struct", as, <<>>)

-----------------------------------------------------------------------------
(* syn: errors, Option, nested-meta parsing *)

\* what an error points at: a variant, the n-th attribute of a declaration or
\* variant, or a key inside that attribute
NoSpan == [on |-> "none", name |-> "", idx |-> 0, key |-> ""]

SpanVariant(v) == [on |-> "variant", name |-> v.name, idx |-> 0, key |-> ""]

SpanAttr(owner, n) == [on |-> "attr", name |-> owner, idx |-> n, key |-> ""]

SpanKey(owner, n, k) == [on |-> "key", name |-> owner, idx |-> n, key |-> k]

Ok(v) == [ok |-> TRUE, value |-> v, msg |-> <<>>, span |-> NoSpan]

Err(m, sp) == [ok |-> FALSE, value |-> <<>>, msg |-> m, span |-> sp]

None == [some |-> FALSE, v |-> <<>>]

Some(t) == [some |-> TRUE, v |-> t]

\* the tokens of items[i..] as they stand in the attribute after the "=" of
\* item i: the value of item i, then ", key = value" for every later item
RECURSIVE TokensFrom(_, _)
TokensFrom(items, i) ==
    IF i > Len(items) THEN <<>>
    ELSE <<",", items[i].key, "=", items[i].val>> \o TokensFrom(items, i + 1)

\* a parse of the value that stops at the next comma
parse_one_token(items, i) == [value |-> <<items[i].val>>, next |-> i + 1]

\* <TokenStream as Parse>::parse: takes every token left in the stream
parse_TokenStream(items, i) ==
    [value |-> <<items[i].val>> \o TokensFrom(items, i + 1), next |-> Len(items) + 1]

\* <LitStr as Parse>::parse: takes the one literal
parse_LitStr(items, i) == [value |-> items[i].val, next |-> i + 1]

\* the arguments laid out last field first
RECURSIVE SeparatedReversed(_)
SeparatedReversed(args) ==
    IF args = <<>> THEN <<>>
    ELSE IF Len(args) = 1 THEN <<args[1]>>
    ELSE <<args[Len(args)], ",">> \o SeparatedReversed(SubSeq(args, 1, Len(args) - 1))

\* #ident(#(#args),*)
RECURSIVE Separated(_)
Separated(args) ==
    IF args = <<>> THEN <<>>
    ELSE IF Len(args) = 1 THEN <<args[1]>>
    ELSE <<args[1], ",">> \o Separated(Tail(args))

\* the path alone, not called
PathTokens(ident, args) == <<ident>>

CallTokens(ident, args) == <<ident, "(">> \o Separated(args) \o <<")">>

-----------------------------------------------------------------------------
(* parse_output_attribute *)

\* the closure handed to parse_nested_meta, run over the items from i on
RECURSIVE output_meta(_, _, _, _, _)
output_meta(owner, n, items, i, output) ==
    IF i > Len(items) THEN Ok(output)
    ELSE IF items[i].key = "output"
        THEN LET p == parse_TokenStream(items, i)
             IN  output_meta(owner, n, items, p.next, Some(p.value))
        ELSE Err(<<"unrecognized attribute for argcall", items[i].key>>,
                 SpanKey(owner, n, items[i].key))

\* a result type that falls back to () when no output key is given
parse_output_or_unit(owner, n, attr) ==
    LET r == output_meta(owner, n, attr.items, 1, None)
    IN  IF ~r.ok THEN r
        ELSE IF r.value.some THEN Ok(r.value.v)
        ELSE Ok(<<"()">>)

parse_output_attribute(owner, n, attr) ==
    LET r == output_meta(owner, n, attr.items, 1, None)
    IN  IF ~r.ok THEN r
        ELSE IF r.value.some THEN Ok(r.value.v)
        ELSE Err(<<"expected an 'output' attribute">>, SpanAttr(owner, n))

-----------------------------------------------------------------------------
(* parse_fn_attribute *)

RECURSIVE fn_meta(_, _, _, _, _, _)
fn_meta(owner, n, items, i, args, f) ==
    IF i > Len(items) THEN Ok(f)
    ELSE IF items[i].key = "fn"
        THEN LET p == parse_TokenStream(items, i)
             IN  fn_meta(owner, n, items, p.next, args, Some(p.value))
    ELSE IF items[i].key = "fn_path"
        THEN LET p == parse_LitStr(items, i)
             IN  fn_meta(owner, n, items, p.next, args, Some(CallTokens(p.value, args)))
    ELSE Err(<<"unrecognized attribute for argcall", items[i].key>>,
             SpanKey(owner, n, items[i].key))

parse_fn_attribute(owner, n, attr, args) ==
    LET r == fn_meta(owner, n, attr.items, 1, args, None)
    IN  IF ~r.ok THEN r
        ELSE IF r.value.some THEN Ok(r.value.v)
        ELSE Err(<<"expected an 'fn' attribute">>, SpanAttr(owner, n))

-----------------------------------------------------------------------------
(* CallableType *)

CallableTypes == {"Callable", "CallableMut", "CallableOnce"}

as_trait(ct) ==
    CASE ct = "Callable" -> "argcall::Callable"
      [] ct = "CallableMut" -> "argcall::CallableMut"
      [] ct = "CallableOnce" -> "argcall::CallableOnce"

as_fn(ct) ==
    CASE ct = "Callable" -> [method |-> "call_fn", receiver |-> "&self"]
      [] ct = "CallableMut" -> [method |-> "call_fn_mut", receiver |-> "&mut self"]
      [] ct = "CallableOnce" -> [method |-> "call_fn_once", receiver |-> "self"]

-----------------------------------------------------------------------------
(* parse_variant *)

is_argcall(attr) == attr.path = "argcall"

\* attrs.iter().filter(|attr| attr.path().is_ident("argcall")), with the
\* position of each attribute kept
filter_argcall(attrs) ==
    SelectSeq([i \in 1..Len(attrs) |-> [idx |-> i, attr |-> attrs[i]]],
              LAMBDA e : is_argcall(e.attr))

\* an arm whose pattern binds nothing
ArmWithoutBindings(v, binds, body, comma) ==
    [variant |-> v.name, shape |-> v.shape, binds |-> <<>>, body |-> body,
     comma |-> comma]

Arm(v, binds, body, comma) ==
    [variant |-> v.name, shape |-> v.shape, binds |-> binds, body |-> body,
     comma |-> comma]

\* a marker that implements Callable whatever the entry point
VariantStructByRef(ct, enum_name, output_type, v, func_token) ==
    [name |-> <<enum_name, v.name, "Callable">>,
     vis |-> "pub",
     trait |-> as_trait("Callable"),
     method |-> as_fn("Callable").method,
     receiver |-> as_fn("Callable").receiver,
     output |-> output_type,
     body |-> func_token]

\* pub struct #struct_name; impl #trait_name for #struct_name { ... }
VariantStruct(ct, enum_name, output_type, v, func_token) ==
    [name |-> <<enum_name, v.name, "Callable">>,
     vis |-> "pub",
     trait |-> as_trait(ct),
     method |-> as_fn(ct).method,
     receiver |-> as_fn(ct).receiver,
     output |-> output_type,
     body |-> func_token]

\* .map(|attr| parse_fn_attribute(attr, args)).next().unwrap_or_else(..)
first_fn_attribute(v, args) ==
    LET func_token == filter_argcall(v.attrs)
    IN  IF func_token = <<>>
        THEN Err(<<"expected an 'argcall' attribute">>, SpanVariant(v))
        ELSE parse_fn_attribute(v.name, func_token[1].idx, func_token[1].attr, args)

unnamed_call(ct) ==
    CASE ct = "Callable" -> "argcall::Callable::call_fn"
      [] ct = "CallableMut" -> "argcall::CallableMut::call_fn_mut"
      [] ct = "CallableOnce" -> "argcall::CallableOnce::call_fn_once"

parse_variant(ct, enum_name, output_type, v) ==
    CASE v.shape = "unit" ->
            LET func_token == first_fn_attribute(v, <<>>)
            IN  IF ~func_token.ok THEN func_token
                ELSE Ok([structs |-> <<VariantStruct(ct, enum_name, output_type, v,
                                                      func_token.value)>>,
                         arm |-> Arm(v, <<>>, func_token.value, TRUE)])
      [] v.shape = "unnamed" ->
            Ok([structs |-> <<>>,
                arm |-> Arm(v, <<"value">>,
                            <<unnamed_call(ct), "(", "value", ",", "()", ")">>, FALSE)])
      [] v.shape = "named" ->
            LET names == v.fields
                func_token == first_fn_attribute(v, names)
            IN  IF ~func_token.ok THEN func_token
                ELSE Ok([structs |-> <<>>,
                         arm |-> Arm(v, names, func_token.value, TRUE)])

-----------------------------------------------------------------------------
(* generic_callable *)

Expanded(ct, enum_name, output_type, structs, arms) ==
    [status |-> "ok", msg |-> <<>>, site |-> NoSpan,
     structs |-> structs,
     trait |-> as_trait(ct),
     target |-> enum_name,
     method |-> as_fn(ct).method,
     receiver |-> as_fn(ct).receiver,
     output |-> output_type,
     arms |-> arms]

SpanDerive(ident) == [on |-> "derive", name |-> ident, idx |-> 0, key |-> ""]

\* a panic of the macro: no code is emitted, and rustc reports the panic
\* message at the derive invocation of the declaration
Panic(ident, m) ==
    [status |-> "panic", msg |-> m, site |-> SpanDerive(ident),
     structs |-> <<>>, trait |-> "", target |-> "",
     method |-> "", receiver |-> "", output |-> <<>>, arms |-> <<>>]

\* Result::unwrap on Err(e): panics with the Debug form of e, which is its
\* message; the span of e is not part of it
unwrap_panic(ident, e) == Panic(ident, e.msg)

\* data.variants.iter().try_for_each(..): stops at the first Err
RECURSIVE try_for_each(_, _, _, _, _, _)
try_for_each(ct, enum_name, output_type, variants, i, acc) ==
    IF i > Len(variants) THEN Ok(acc)
    ELSE LET r == parse_variant(ct, enum_name, output_type, variants[i])
         IN  IF ~r.ok THEN r
             ELSE try_for_each(ct, enum_name, output_type, variants, i + 1,
                               [structs |-> acc.structs \o r.value.structs,
                                arms |-> Append(acc.arms, r.value.arm)])

generic_callable(ct, inp) ==
    IF inp.kind # "enum"
    THEN Panic(inp.ident, <<"#[derive(Callable)] can only be applied to enums">>)
    ELSE
    LET outs == filter_argcall(inp.attrs)
    IN  IF outs = <<>>
        THEN Panic(inp.ident, <<"Expected #[argcall(output=...)] attribute on enum">>)
        ELSE
        LET output_type == parse_output_attribute(inp.ident, outs[1].idx, outs[1].attr)
        IN  IF ~output_type.ok THEN unwrap_panic(inp.ident, output_type)
            ELSE
            LET r == try_for_each(ct, inp.ident, output_type.value, inp.variants, 1,
                                  [structs |-> <<>>, arms |-> <<>>])
            IN  IF ~r.ok THEN unwrap_panic(inp.ident, r)
                ELSE Expanded(ct, inp.ident, output_type.value,
                              r.value.structs, r.value.arms)

-----------------------------------------------------------------------------
(* The trait family: Callable, CallableMut, CallableOnce *)

Receivers == {"r1", "r2", "r3"}

Values == {1, 2}

ArgBundles == SeqsUpTo(Values, MaxArgs)

\* the body a user wrote for Callable::call_fn: an arbitrary function of the
\* receiver and the argument bundle, kept uninterpreted
user_call_fn(self, args) ==
    [kind |-> "call", fn |-> "call_fn", self |-> self, args |-> args]

\* trait Callable: fn call_fn(&self, args)
call_fn(self, args) == user_call_fn(self, args)

\* a forwarding that passes the empty bundle on
call_fn_mut_empty(self, args) == call_fn(self, <<>>)

\* impl<T: Callable<Args>> CallableMut<Args> for T
call_fn_mut(self, args) == call_fn(self, args)

\* impl<T: CallableMut<Args>> CallableOnce<Args> for T
call_fn_once(self, args) == call_fn_mut(self, args)

NoResult == [kind |-> "none", fn |-> "", self |-> "", args |-> <<>>]

NoCall == [mode |-> "none", recv |-> "", args |-> <<>>, result |-> NoResult]

Call(mode, self, args, result) ==
    [mode |-> mode, recv |-> self, args |-> args, result |-> result]

CallFn ==
    \E self \in alive, args \in ArgBundles :
        /\ last' = Call("call_fn", self, args, call_fn(self, args))
        /\ UNCHANGED <<alive, input, phase, callable_type, expanded, called>>

CallFnMut ==
    \E self \in alive, args \in ArgBundles :
        /\ last' = Call("call_fn_mut", self, args, call_fn_mut(self, args))
        /\ UNCHANGED <<alive, input, phase, callable_type, expanded, called>>

\* the receiver is moved into the call and dropped
CallFnOnce ==
    \E self \in alive, args \in ArgBundles :
        /\ last' = Call("call_fn_once", self, args, call_fn_once(self, args))
        /\ alive' = alive \ {self}
        /\ UNCHANGED <<input, phase, callable_type, expanded, called>>

-----------------------------------------------------------------------------
(* The expanded code, compiled and run *)

\* an expression: one opaque user expression token, or a call  f ( a , b )
IsCall(body) == Len(body) >= 3 /\ body[2] = "(" /\ body[Len(body)] = ")"

IsExpr(body) ==
    \/ Len(body) = 1
    \/ /\ IsCall(body)
       /\ \A k \in 3..(Len(body) - 1) : (body[k] = ",") <=> (k % 2 = 0)
       /\ Len(body) % 2 = 0 \/ Len(body) = 3

CallArgs(body) == [k \in 1..((Len(body) - 2) \div 2) |-> body[2 * k + 1]]

\* rustc on  #(#variant_structs)* impl .. { fn .. { match self { #(#match_arms)* } } }:
\* the arms are laid end to end, so an arm that is not the last needs its own
\* trailing comma; the result type and every body must be well formed
Accepts(code) ==
    /\ Len(code.output) = 1
    /\ \A i \in 1..Len(code.arms) :
          /\ IsExpr(code.arms[i].body)
          /\ i < Len(code.arms) => code.arms[i].comma
    /\ \A i \in 1..Len(code.structs) : IsExpr(code.structs[i].body)

NoDispatch ==
    [case |-> "", fields |-> <<>>, inner |-> "", arm |-> 0, scope |-> {},
     result |-> NoResult]

\* evaluation of an arm body with the pattern's bindings env; value is what a
\* tuple pattern binds
Eval(body, env, inner) ==
    IF ~IsCall(body)
    THEN [kind |-> "expr", fn |-> body[1], self |-> "", args |-> <<>>]
    ELSE CASE body[1] = "argcall::Callable::call_fn" -> call_fn(inner, <<>>)
           [] body[1] = "argcall::CallableMut::call_fn_mut" -> call_fn_mut(inner, <<>>)
           [] body[1] = "argcall::CallableOnce::call_fn_once" -> call_fn_once(inner, <<>>)
           [] OTHER -> [kind |-> "call", fn |-> body[1], self |-> "",
                        args |-> [k \in 1..Len(CallArgs(body)) |-> env[CallArgs(body)[k]]]]

\* match self { arms }: the first arm whose pattern is the value's variant
Dispatch(code, v, env, inner) ==
    LET hits == {i \in 1..Len(code.arms) : code.arms[i].variant = v.name}
        i == CHOOSE j \in hits : \A k \in hits : j <= k
        arm == code.arms[i]
    IN  [case |-> v.name,
         fields |-> [k \in 1..Len(v.fields) |-> env[v.fields[k]]],
         inner |-> IF v.shape = "unnamed" THEN inner ELSE "",
         arm |-> i,
         scope |-> {arm.binds[k] : k \in 1..Len(arm.binds)},
         result |-> Eval(arm.body, env, inner)]

-----------------------------------------------------------------------------
(* Actions *)

Derive(ct) ==
    /\ phase = "pending"
    /\ callable_type' = ct
    /\ expanded' = generic_callable(ct, input)
    /\ phase' = IF expanded'.status = "ok" THEN "expanded" ELSE "panicked"
    /\ UNCHANGED <<input, called, alive, last>>

callable_derive == Derive("Callable")

callable_mut_derive == Derive("CallableMut")

callable_once_derive == Derive("CallableOnce")

Compile ==
    /\ phase = "expanded"
    /\ phase' = IF Accepts(expanded) THEN "compiled" ELSE "rejected"
    /\ UNCHANGED <<input, callable_type, expanded, called, alive, last>>

\* a value of the enum is built as its i-th variant and the dispatcher called
Invoke ==
    /\ phase = "compiled"
    /\ \E i \in 1..Len(input.variants) :
         LET v == input.variants[i]
             fs == {v.fields[k] : k \in 1..Len(v.fields)}
         IN  \E env \in [fs -> Values], inner \in Receivers :
                called' = Dispatch(expanded, v, env, inner)
    /\ UNCHANGED <<input, phase, callable_type, expanded, alive, last>>

NoExpansion == Panic("", <<>>)

Init ==
    /\ IsInput(input)
    /\ phase = "pending"
    /\ callable_type = "Callable"
    /\ expanded = NoExpansion
    /\ called = NoDispatch
    /\ alive = Receivers
    /\ last = NoCall

Next ==
    \/ callable_derive
    \/ callable_mut_derive
    \/ callable_once_derive
    \/ Compile
    \/ Invoke

Spec == Init /\ [][Next]_vars

\* the trait family on its own: calls made directly by user code
InitCall ==
    /\ input = Decl("struct", <<>>, <<>>)
    /\ phase = "pending"
    /\ callable_type = "Callable"
    /\ expanded = NoExpansion
    /\ called = NoDispatch
    /\ alive = Receivers
    /\ last = NoCall

NextCall ==
    \/ CallFn
    \/ CallFnMut
    \/ CallFnOnce

SpecCall == InitCall /\ [][NextCall]_vars

-----------------------------------------------------------------------------
(* The declaration as written, read without the parser *)

RECURSIVE FlatItems(_)
FlatItems(attrs) ==
    IF attrs = <<>> THEN <<>>
    ELSE (IF Head(attrs).path = "argcall" THEN Head(attrs).items ELSE <<>>)
         \o FlatItems(Tail(attrs))

KeysOf(attrs) == {FlatItems(attrs)[k].key : k \in 1..Len(FlatItems(attrs))}

ArgcallCount(attrs) == Cardinality({k \in 1..Len(attrs) : attrs[k].path = "argcall"})

\* one argcall attribute, holding one item
OneItem(attrs) == ArgcallCount(attrs) = 1 /\ Len(FlatItems(attrs)) = 1

\* the one directive of a variant that carries exactly one item
SoleItem(v) == FlatItems(v.attrs)[1]

BoundBy(v, key) == OneItem(v.attrs) /\ SoleItem(v).key = key

HasArgcall(attrs) == \E k \in 1..Len(attrs) : attrs[k].path = "argcall"

FirstArgcall(attrs) ==
    attrs[CHOOSE k \in 1..Len(attrs) :
            /\ attrs[k].path = "argcall"
            /\ \A j \in 1..(k - 1) : attrs[j].path # "argcall"]

IsEnum == input.kind = "enum"

Variants == {input.variants[i] : i \in 1..Len(input.variants)}

VariantNamed(n) == CHOOSE v \in Variants : v.name = n

\* every no-data and named-field case carries exactly one fn or fn_path
VariantsBound ==
    \A v \in Variants :
        v.shape # "unnamed" => (BoundBy(v, "fn") \/ BoundBy(v, "fn_path"))

\* exactly one output directive on the declaration, and nothing else
OutputGiven == OneItem(input.attrs) /\ KeysOf(input.attrs) = {"output"}

Generated == phase # "pending"

Emitted == Generated /\ expanded.status = "ok"

Failed == Generated /\ expanded.status = "panic"

\* a failed generation emits nothing
NothingEmitted == expanded.structs = <<>> /\ expanded.arms = <<>> /\ phase = "panicked"

-----------------------------------------------------------------------------
(* C1 *)

\* C1: on a type that implements only Callable, the derived call_fn_mut and
\* the derived call_fn_once return what the type's own call_fn body returns
\* for the same receiver and the same argument bundle
C1_DerivationLaw ==
    last.mode \in {"call_fn_mut", "call_fn_once"} =>
        last.result = user_call_fn(last.recv, last.args)

C1_Witness ==
    /\ last.mode = "call_fn_once"
    /\ Len(last.args) = MaxArgs
    /\ last.recv \notin alive
    /\ last.result.args = last.args

-----------------------------------------------------------------------------
(* C2 *)

UnitOnly ==
    /\ IsEnum
    /\ \A v \in Variants : v.shape = "unit"
    /\ VariantsBound

\* what the directive of a no-data case denotes: the expression of fn, or the
\* function named by fn_path called with no argument
BoundExpr(v) ==
    IF SoleItem(v).key = "fn"
    THEN [kind |-> "expr", fn |-> SoleItem(v).val, self |-> "", args |-> <<>>]
    ELSE [kind |-> "call", fn |-> SoleItem(v).val, self |-> "", args |-> <<>>]

\* C2: for an enum of no-data cases, each with one fn or fn_path directive,
\* the generated call_fn is emitted and compiles, and called on a value of
\* case C it yields the value of C's bound expression
C2_UnitDispatch ==
    (UnitOnly /\ OutputGiven /\ Generated /\ callable_type = "Callable") =>
        /\ phase \in {"expanded", "compiled"}
        /\ expanded.method = "call_fn"
        /\ called.case # "" => called.result = BoundExpr(VariantNamed(called.case))

C2_Witness ==
    /\ UnitOnly /\ OutputGiven /\ callable_type = "Callable"
    /\ Len(input.variants) >= 2
    /\ called.case = "B"
    /\ called.result = BoundExpr(input.variants[2])
    /\ BoundExpr(input.variants[1]) # BoundExpr(input.variants[2])

-----------------------------------------------------------------------------
(* C4 *)

\* every item the case carries is an fn_path item
OnlyFnPath(v) ==
    /\ FlatItems(v.attrs) # <<>>
    /\ KeysOf(v.attrs) = {"fn_path"}

\* C4: the arm of a named-field case bound by fn_path is a call of the named
\* function whose arguments are the fields of the case, each once, in
\* declaration order; called on a value it passes the field values in that
\* order
C4_FieldOrder ==
    /\ Emitted =>
         \A i \in 1..Len(input.variants) :
            LET v == input.variants[i]
                b == expanded.arms[i].body
            IN  (v.shape = "named" /\ OnlyFnPath(v)) =>
                   /\ b[1] = FlatItems(v.attrs)[1].val
                   /\ Len(b) = 2 * Len(v.fields) + 2
                   /\ \A k \in 1..Len(v.fields) : b[2 * k + 1] = v.fields[k]
                   /\ expanded.arms[i].binds = v.fields
    /\ (called.case # "" /\ VariantNamed(called.case).shape = "named"
            /\ OnlyFnPath(VariantNamed(called.case))) =>
         called.result = [kind |-> "call",
                          fn |-> FlatItems(VariantNamed(called.case).attrs)[1].val,
                          self |-> "", args |-> called.fields]

C4_Witness ==
    /\ called.case # ""
    /\ VariantNamed(called.case).fields = <<"y", "x">>
    /\ OnlyFnPath(VariantNamed(called.case))
    /\ called.fields = <<1, 2>>
    /\ called.result.args = <<1, 2>>

-----------------------------------------------------------------------------
(* C3 *)

HasWrapper == IsEnum /\ \E v \in Variants : v.shape = "unnamed"

ForwardTrait(ct) ==
    CASE ct = "Callable" -> "argcall::Callable"
      [] ct = "CallableMut" -> "argcall::CallableMut"
      [] ct = "CallableOnce" -> "argcall::CallableOnce"

ForwardOf(ct) ==
    CASE ct = "Callable" -> "argcall::Callable::call_fn"
      [] ct = "CallableMut" -> "argcall::CallableMut::call_fn_mut"
      [] ct = "CallableOnce" -> "argcall::CallableOnce::call_fn_once"

\* C3: for every enum with a single-anonymous-field case (and otherwise
\* complete directives), the generated dispatcher exists, and called on that
\* case it forwards to the inner value's call of the entry point's receiver
\* mode with the empty bundle and returns its result; the attributes of the
\* case play no part
C3_Forwarding ==
    (HasWrapper /\ OutputGiven /\ VariantsBound /\ Generated) =>
        /\ phase \in {"expanded", "compiled"}
        /\ \A i \in 1..Len(input.variants) :
              input.variants[i].shape = "unnamed" =>
                 expanded.arms[i].body[1] = ForwardOf(callable_type)
        /\ (called.case # "" /\ VariantNamed(called.case).shape = "unnamed") =>
              called.result = user_call_fn(called.inner, <<>>)

-----------------------------------------------------------------------------
(* C5 *)

NoOutputDirective == IsEnum /\ "output" \notin KeysOf(input.attrs)

MissingOutput ==
    { <<"Expected #[argcall(output=...)] attribute on enum">>,
      <<"expected an 'output' attribute">> }

Unrecognized(key) == <<"unrecognized attribute for argcall", key>>

\* C5 as written: without an output directive generation fails with a
\* missing-directive error at the declaration
C5_MissingOutputError ==
    (NoOutputDirective /\ Generated) =>
        /\ Failed /\ NothingEmitted
        /\ expanded.msg \in MissingOutput
        /\ expanded.site.name = input.ident

\* C5, amended: without an output directive generation fails at the
\* declaration and emits nothing; the error is the missing-directive error,
\* unless the first argcall attribute holds another key, and then it is the
\* unrecognized-key error naming that key
C5_NoDefaultOutput ==
    (NoOutputDirective /\ Generated) =>
        /\ Failed /\ NothingEmitted
        /\ expanded.site.name = input.ident
        /\ IF HasArgcall(input.attrs) /\ FirstArgcall(input.attrs).items # <<>>
           THEN expanded.msg = Unrecognized(FirstArgcall(input.attrs).items[1].key)
           ELSE expanded.msg \in MissingOutput

C5_Witness ==
    /\ NoOutputDirective /\ Failed
    /\ HasArgcall(input.attrs)
    /\ expanded.msg = <<"expected an 'output' attribute">>
    /\ VariantsBound

-----------------------------------------------------------------------------
(* C6 *)

LacksDirective(v) ==
    /\ v.shape \in {"unit", "named"}
    /\ KeysOf(v.attrs) \cap {"fn", "fn_path"} = {}

MissingFn == {<<"expected an 'argcall' attribute">>, <<"expected an 'fn' attribute">>}

\* C6: when a no-data or named-field case lacks its fn/fn_path directive,
\* generation fails with a missing-directive error that identifies that case,
\* wherever the case stands, and nothing is emitted
C6_MissingFnIdentified ==
    (IsEnum /\ OutputGiven /\ Generated) =>
        \A v \in Variants :
            LacksDirective(v) =>
                /\ Failed /\ NothingEmitted
                /\ expanded.msg \in MissingFn
                /\ expanded.site.name = v.name

-----------------------------------------------------------------------------
(* C7 *)

\* the keys that open an argcall group
LeadKeys(attrs) ==
    {attrs[k].items[1].key :
        k \in {j \in 1..Len(attrs) : attrs[j].path = "argcall" /\ attrs[j].items # <<>>}}

UnknownKeys ==
    (LeadKeys(input.attrs) \ {"output"})
    \cup UNION {LeadKeys(v.attrs) \ {"fn", "fn_path"} : v \in Variants}

\* C7: a key outside {output} in an argcall group of the declaration, or
\* outside {fn, fn_path} in an argcall group of a case of any shape, first
\* group or not, is a fatal error naming an unrecognized key (stated for the
\* keys that open their group, on declarations that miss no directive)
C7_UnknownKeyFatal ==
    (IsEnum /\ "output" \in LeadKeys(input.attrs) /\ Generated /\ UnknownKeys # {}
        /\ \A v \in Variants : ~LacksDirective(v)) =>
        /\ Failed
        /\ \E k \in UnknownKeys : expanded.msg = Unrecognized(k)

-----------------------------------------------------------------------------
(* C8 *)

UnitIndices ==
    SelectSeq([i \in 1..Len(input.variants) |-> i],
              LAMBDA i : input.variants[i].shape = "unit")

\* the k-th marker type belongs to the k-th no-data case: its name is the
\* enum name, the case name and "Callable", it is public, and its body and
\* result type are those of the dispatcher arm of that case
MarkersOfUnits ==
    /\ Len(expanded.structs) = Len(UnitIndices)
    /\ \A k \in 1..Len(expanded.structs) :
          LET st == expanded.structs[k]
              i == UnitIndices[k]
          IN  /\ st.name = <<input.ident, input.variants[i].name, "Callable">>
              /\ st.vis = "pub"
              /\ st.body = expanded.arms[i].body
              /\ st.output = expanded.output

\* C8 as written: under each entry point one marker per no-data case and no
\* other, each implementing Callable::call_fn
C8_MarkersByReference ==
    Emitted =>
        /\ MarkersOfUnits
        /\ \A k \in 1..Len(expanded.structs) :
              /\ expanded.structs[k].trait = "argcall::Callable"
              /\ expanded.structs[k].method = "call_fn"

\* C8, amended: under each entry point one marker per no-data case and no
\* other, each implementing the interface of the entry point used: the trait
\* and method of the dispatcher itself
C8_MarkersOfEntryPoint ==
    Emitted =>
        /\ MarkersOfUnits
        /\ expanded.trait = ForwardTrait(callable_type)
        /\ \A k \in 1..Len(expanded.structs) :
              /\ expanded.structs[k].trait = expanded.trait
              /\ expanded.structs[k].method = expanded.method
              /\ expanded.structs[k].receiver = expanded.receiver

C8_Witness ==
    /\ Emitted
    /\ callable_type = "CallableOnce"
    /\ Len(input.variants) = 2
    /\ Len(expanded.structs) = 1
    /\ input.variants[1].shape = "named"
    /\ expanded.structs[1].method = "call_fn_once"

-----------------------------------------------------------------------------
(* C9 *)

OutputCount ==
    Cardinality({k \in 1..Len(FlatItems(input.attrs)) :
                    FlatItems(input.attrs)[k].key = "output"})

FirstOutput ==
    LET its == FlatItems(input.attrs)
    IN  its[CHOOSE k \in 1..Len(its) :
              /\ its[k].key = "output"
              /\ \A j \in 1..(k - 1) : its[j].key # "output"]

\* the text of an attribute's argument list
RECURSIVE AttrText(_)
AttrText(items) ==
    IF items = <<>> THEN <<>>
    ELSE <<Head(items).key, "=", Head(items).val>>
         \o (IF Len(items) > 1 THEN <<",">> ELSE <<>>) \o AttrText(Tail(items))

-----------------------------------------------------------------------------
(* C10 *)

FnNamed(v) == v.shape = "named" /\ BoundBy(v, "fn")

\* C10 as written: the arm of a named-field case bound by fn has the
\* expression as its body and a pattern that binds no field
C10_NoFieldInScope ==
    Emitted =>
        \A i \in 1..Len(input.variants) :
            FnNamed(input.variants[i]) =>
                /\ expanded.arms[i].body = <<SoleItem(input.variants[i]).val>>
                /\ expanded.arms[i].binds = <<>>

\* C10, amended: the arm of a named-field case bound by fn has the
\* expression as its body, and its pattern binds every field of the case by
\* name, in declaration order, so the fields are in scope of the expression
C10_FieldsInScope ==
    /\ Emitted =>
         \A i \in 1..Len(input.variants) :
            FnNamed(input.variants[i]) =>
                /\ expanded.arms[i].body = <<SoleItem(input.variants[i]).val>>
                /\ expanded.arms[i].binds = input.variants[i].fields
    /\ (called.case # "" /\ FnNamed(VariantNamed(called.case))) =>
         LET v == VariantNamed(called.case)
         IN  /\ called.scope = {v.fields[k] : k \in 1..Len(v.fields)}
             /\ called.result = [kind |-> "expr", fn |-> SoleItem(v).val,
                                 self |-> "", args |-> <<>>]

C10_Witness ==
    /\ called.case # ""
    /\ FnNamed(VariantNamed(called.case))
    /\ called.scope = {"x", "y"}

====
